---- MODULE Spec2Model ----
(***************************************************************************)
(* Model of backend/app/services/question_extractor.py:                    *)
(*   HumanLogicQuestionExtractor  (find_sections, find_questions_in_section,*)
(*   extract_question_content, extract_questions, validate_extraction_     *)
(*   results) and QuestionImageExtractor (extract_images_from_question,    *)
(*   extract_image_from_run, save_image_data), driven the way              *)
(*   api/endpoints/question.py drives them: extract_questions once, then   *)
(*   extract_images_from_question for every question of the result.        *)
(*                                                                         *)
(* Paragraph indices are 0-based as in the source; the paragraph with      *)
(* index i is doc[i + 1].                                                  *)
(***************************************************************************)
EXTENDS Integers, Sequences, FiniteSets, TLC

VARIABLES doc, pc, sections, si, total_questions, total_images,
          all_questions, result, qi, call, inst, outdir

vars == <<doc, pc, sections, si, total_questions, total_images,
          all_questions, result, qi, call, inst, outdir>>

----------------------------------------------------------------------------
(* Bounds of the model *)

\* longest document of the exhaustively enumerated family
MaxLen == 6

----------------------------------------------------------------------------
(* Paragraphs.  A paragraph is its trimmed text and its runs.  The text is  *)
(* kept as the class the extractor's regular expressions put it in (kind), *)
(* the integer it carries (num: the decimal of a question-number line, the *)
(* numeral of a section heading), and its length (tlen).  runs lists the   *)
(* runs that hold a drawing, each as the relationship ids its XML names.   *)

Para(k, n, l, r) == [kind |-> k, num |-> n, tlen |-> l, runs |-> r]

Sec(n)  == Para("sec", n, 6, <<>>)
Grp     == Para("grp", 0, 3, <<>>)
Num(n)  == Para("num", n, 1, <<>>)
Txt     == Para("txt", 0, 5, <<>>)
Emp     == Para("emp", 0, 0, <<>>)

\* para.text.strip()
Text(p) == [kind |-> p.kind, num |-> p.num, tlen |-> p.tlen]

\* re.match(self.section_pattern, text)
IsSection(p) == p.kind = "sec"

\* dataset_heading_pattern.match(text)
IsDatasetHeading(p) == p.kind = "grp"

\* re.match(self.question_pattern, text)
IsQuestionNumber(p) == p.kind = "num"

\* option_pattern.match(para_text)
IsOption(p) == p.kind = "opt"

Max(a, b) == IF a >= b THEN a ELSE b
Min(a, b) == IF a <= b THEN a ELSE b

\* the indices 0 .. n-1 in order
Indices(n) == [k \in 1..n |-> k - 1]

\* range(a, b) as a sequence
Range(a, b) == [k \in 1..Max(b - a, 0) |-> a + k - 1]

----------------------------------------------------------------------------
(* find_sections *)

SectionStarts(d) ==
    LET isHead(i) == IsSection(d[i + 1])
    IN  SelectSeq(Indices(Len(d)), isHead)

\* mutant: every section runs to the end of the document
SectionEnd_document_end(starts, k, n) == n

\* mutant: a section ends one paragraph before the next heading
SectionEnd_before_next_heading(starts, k, n) ==
    IF k + 1 <= Len(starts) THEN starts[k + 1] - 1 ELSE n

SectionEnd(starts, k, n) ==
    IF k + 1 <= Len(starts) THEN starts[k + 1] ELSE n

find_sections(d) ==
    LET starts == SectionStarts(d)
    IN  [k \in 1..Len(starts) |->
            [name       |-> Text(d[starts[k] + 1]),
             start_para |-> starts[k],
             end_para   |-> SectionEnd(starts, k, Len(d)),
             questions  |-> <<>>]]

----------------------------------------------------------------------------
(* find_questions_in_section *)

\* a question whose 'end' key is not set yet
NoEnd == -1

\* mutant: the scan of a section starts with group id 1
ScanInit_group_one(section) ==
    [questions           |-> <<>>,
     current_start       |-> section.start_para,
     last_boundary       |-> section.start_para,
     in_preface          |-> FALSE,
     group_id            |-> 1,
     current_group_start |-> section.start_para]

\* mutant: the scan of a section starts at the first paragraph of the document
ScanInit_from_document_start(section) ==
    [questions           |-> <<>>,
     current_start       |-> 0,
     last_boundary       |-> 0,
     in_preface          |-> FALSE,
     group_id            |-> 0,
     current_group_start |-> 0]

ScanInit(section) ==
    [questions           |-> <<>>,
     current_start       |-> section.start_para,
     last_boundary       |-> section.start_para,
     in_preface          |-> FALSE,
     group_id            |-> 0,
     current_group_start |-> section.start_para]

\* mutant: an end already set is not set again
CloseLast_once(qs, e) ==
    IF qs = <<>> \/ qs[Len(qs)].end # -1 THEN qs
    ELSE [qs EXCEPT ![Len(qs)].end = e]

\* questions[-1]['end'] = e, if questions
CloseLast(qs, e) ==
    IF qs = <<>> THEN qs ELSE [qs EXCEPT ![Len(qs)].end = e]

\* mutant: a new question always starts at current_start
question_start_always_current(st) == st.current_start

\* question_start = current_start if not questions else last_boundary
question_start(st) ==
    IF st.questions = <<>> THEN st.current_start ELSE st.last_boundary

\* mutant: a group heading does not open a new group id
OnDatasetHeading_same_group(st, i) ==
    [st EXCEPT !.questions = CloseLast(@, st.last_boundary),
               !.current_start = i,
               !.last_boundary = i,
               !.in_preface = TRUE,
               !.current_group_start = i]

\* the branch taken at a group heading
OnDatasetHeading(st, i) ==
    [st EXCEPT !.questions = CloseLast(@, st.last_boundary),
               !.current_start = i,
               !.last_boundary = i,
               !.in_preface = TRUE,
               !.group_id = @ + 1,
               !.current_group_start = i]

\* the branch taken at a question-number line
OnQuestionNumber(st, i, p) ==
    [st EXCEPT !.questions =
                   Append(CloseLast(@, st.last_boundary),
                          [number       |-> p.num,
                           start        |-> question_start(st),
                           number_index |-> i,
                           group_id     |-> st.group_id,
                           group_start  |-> st.current_group_start,
                           end          |-> NoEnd]),
               !.current_start = i,
               !.last_boundary = i,
               !.in_preface = FALSE]

\* mutant: an ordinary paragraph advances last_boundary inside a preface too
OnOrdinary_always_advance(st, i) == [st EXCEPT !.last_boundary = i + 1]

\* mutant: an ordinary paragraph never advances last_boundary
OnOrdinary_frozen(st, i) == st

\* the branch taken at any other paragraph
OnOrdinary(st, i) ==
    IF ~st.in_preface THEN [st EXCEPT !.last_boundary = i + 1] ELSE st

ScanStep(d, i, st) ==
    LET p == d[i + 1]
    IN  IF IsDatasetHeading(p) THEN OnDatasetHeading(st, i)
        ELSE IF IsQuestionNumber(p) THEN OnQuestionNumber(st, i, p)
        ELSE OnOrdinary(st, i)

RECURSIVE ScanLoop(_, _, _, _)
ScanLoop(d, i, end, st) ==
    IF i >= end \/ i >= Len(d) THEN st
    ELSE ScanLoop(d, i + 1, end, ScanStep(d, i, st))

\* mutant: the last question is closed at last_boundary
FinalEnd_last_boundary(st) == st.last_boundary

\* questions[-1]['end'] = max(last_boundary, questions[-1]['number_index'] + 1)
FinalEnd(st) ==
    Max(st.last_boundary, st.questions[Len(st.questions)].number_index + 1)

find_questions_in_section(d, section) ==
    LET st == ScanLoop(d, section.start_para, section.end_para,
                       ScanInit(section))
    IN  IF st.questions # <<>> THEN CloseLast(st.questions, FinalEnd(st))
        ELSE st.questions

----------------------------------------------------------------------------
(* extract_question_content *)

\* the runs of the paragraph whose XML holds a drawing
para_images(p) == Len(p.runs)

RECURSIVE SumSeq(_)
SumSeq(s) == IF s = <<>> THEN 0 ELSE Head(s) + SumSeq(Tail(s))

\* the paragraph indices range(start, end) that exist in the document
ExistingRange(d, start, end) ==
    LET exists(i) == i < Len(d)
    IN  SelectSeq(Range(start, end), exists)

\* if para_text or para_images > 0: content.append(...)
ContentRecord(d, i) ==
    [paragraph_index |-> i,
     text            |-> Text(d[i + 1]),
     images_count    |-> para_images(d[i + 1]),
     text_length     |-> d[i + 1].tlen]

\* an option paragraph's images are not counted into total_images
CountedImages(p) == IF ~IsOption(p) THEN para_images(p) ELSE 0

extract_question_content(d, start, end) ==
    LET idx     == ExistingRange(d, start, end)
        kept(i) == d[i + 1].tlen > 0 \/ para_images(d[i + 1]) > 0
        content == [k \in 1..Len(SelectSeq(idx, kept)) |->
                        ContentRecord(d, SelectSeq(idx, kept)[k])]
    IN  [paragraphs        |-> content,
         paragraph_count   |-> Len(content),
         total_images      |-> SumSeq([k \in 1..Len(idx) |->
                                          CountedImages(d[idx[k] + 1])]),
         total_text_length |-> SumSeq([k \in 1..Len(idx) |->
                                          d[idx[k] + 1].tlen])]

----------------------------------------------------------------------------
(* extract_questions, step 3: the content of every question of a section,  *)
(* with the group's preface merged into the non-first questions            *)

\* the questions of group gid, in list order
Grouped(qs, gid) ==
    LET inGroup(q) == q.group_id = gid
    IN  SelectSeq(qs, inGroup)

\* min(qs, key=number_index): the first minimal element
first_q(qs) ==
    LET k == CHOOSE k \in 1..Len(qs) :
                 /\ \A j \in 1..Len(qs) : qs[k].number_index <= qs[j].number_index
                 /\ \A j \in 1..(k - 1) : qs[j].number_index > qs[k].number_index
    IN  qs[k]

\* gid in preface_by_group
HasPreface(qs, gid) ==
    /\ Grouped(qs, gid) # <<>>
    /\ first_q(Grouped(qs, gid)).start < first_q(Grouped(qs, gid)).number_index

\* preface_by_group[gid]
preface_by_group(d, qs, gid) ==
    extract_question_content(d, first_q(Grouped(qs, gid)).start,
                                first_q(Grouped(qs, gid)).number_index)

\* first_num_idx_by_group[gid]
first_num_idx_by_group(qs, gid) == first_q(Grouped(qs, gid)).number_index

\* mutant: no question is taken for the first of its group
is_first_in_group_never(qs, q) == FALSE

is_first_in_group(qs, q) ==
    q.number_index = first_num_idx_by_group(qs, q.group_id)

\* mutant: the preface is not merged
MergePreface_own_only(pf, raw) == raw

\* mutant: the preface is put after the question's own content
MergePreface_preface_last(pf, raw) ==
    [paragraphs        |-> raw.paragraphs \o pf.paragraphs,
     paragraph_count   |-> pf.paragraph_count + raw.paragraph_count,
     total_images      |-> pf.total_images + raw.total_images,
     total_text_length |-> pf.total_text_length + raw.total_text_length]

\* the merge of the preface pf in front of the question's own content
MergePreface(pf, raw) ==
    [paragraphs        |-> pf.paragraphs \o raw.paragraphs,
     paragraph_count   |-> pf.paragraph_count + raw.paragraph_count,
     total_images      |-> pf.total_images + raw.total_images,
     total_text_length |-> pf.total_text_length + raw.total_text_length]

QuestionContent(d, qs, q) ==
    LET raw == extract_question_content(d, q.start, q.end)
    IN  IF HasPreface(qs, q.group_id) /\ ~is_first_in_group(qs, q)
        THEN MergePreface(preface_by_group(d, qs, q.group_id), raw)
        ELSE raw

\* paragraph_range is the text "<start>-<end>"; both numbers are never
\* negative, so the text is kept as the two decimals around the dash
question_data(d, section, q) ==
    [number          |-> q.number,
     section         |-> section.name,
     number_index    |-> q.number_index,
     group_id        |-> q.group_id,
     content         |-> QuestionContent(d, section.questions, q),
     paragraph_range |-> [lo |-> q.start, hi |-> q.end]]

SectionQuestionData(d, section) ==
    [k \in 1..Len(section.questions) |->
        question_data(d, section, section.questions[k])]

\* mutant: the merged content's image count is added up
SectionRawImages_merged(d, section) ==
    SumSeq([k \in 1..Len(section.questions) |->
               QuestionContent(d, section.questions, section.questions[k]).total_images])

\* total_images += raw_content.get('total_images', 0), over the section
SectionRawImages(d, section) ==
    SumSeq([k \in 1..Len(section.questions) |->
               extract_question_content(d, section.questions[k].start,
                                           section.questions[k].end).total_images])

----------------------------------------------------------------------------
(* validate_extraction_results *)

ExpectedQuestions == 135
ExpectedImages == 3000

\* numbers.sort()
RECURSIVE Insert(_, _)
Insert(x, s) ==
    IF s = <<>> THEN <<x>>
    ELSE IF x <= Head(s) THEN <<x>> \o s
    ELSE <<Head(s)>> \o Insert(x, Tail(s))

RECURSIVE Sorted(_)
Sorted(s) == IF s = <<>> THEN <<>> ELSE Insert(Head(s), Sorted(Tail(s)))

\* the first i with numbers[i] != numbers[i-1] + 1 gives the one issue; break
\* mutant: every discontinuity of the sorted numbers is reported
ContinuityIssues_every_gap(numbers) ==
    LET isBad(i) == numbers[i + 1] # numbers[i] + 1
        bad == SelectSeq([k \in 1..(Len(numbers) - 1) |-> k], isBad)
    IN  [k \in 1..Len(bad) |->
            [issue |-> "discontinuity",
             from |-> numbers[bad[k]], to |-> numbers[bad[k] + 1]]]

ContinuityIssues(numbers) ==
    LET bad == {i \in 2..Len(numbers) : numbers[i] # numbers[i - 1] + 1}
    IN  IF bad = {} THEN <<>>
        ELSE LET i == CHOOSE i \in bad : \A j \in bad : i <= j
             IN  <<[issue |-> "discontinuity",
                    from |-> numbers[i - 1], to |-> numbers[i]]>>

\* mutant: the question count is reported only when it falls short
CountIssues_shortfall_only(n) ==
    IF n < ExpectedQuestions
    THEN <<[issue |-> "question_count", from |-> ExpectedQuestions, to |-> n]>>
    ELSE <<>>

CountIssues(n) ==
    IF n # ExpectedQuestions
    THEN <<[issue |-> "question_count", from |-> ExpectedQuestions, to |-> n]>>
    ELSE <<>>

ImageIssues(n) ==
    IF n < ExpectedImages
    THEN <<[issue |-> "image_count", from |-> ExpectedImages, to |-> n]>>
    ELSE <<>>

\* max(0, (135 - len(issues)) / 135 * 100), kept as the fraction num / den
success_rate(issues) ==
    [num |-> Max(0, (ExpectedQuestions - Len(issues)) * 100),
     den |-> ExpectedQuestions]

validate_extraction_results(questions, tq, ti) ==
    LET numbers == Sorted([k \in 1..Len(questions) |-> questions[k].number])
        issues  == CountIssues(tq) \o ContinuityIssues(numbers) \o ImageIssues(ti)
    IN  [total_questions |-> tq,
         total_images    |-> ti,
         issues          |-> issues,
         success_rate    |-> success_rate(issues)]

----------------------------------------------------------------------------
(* extract_questions: what it returns *)

\* extract_questions has not returned yet
NoResult == [returned |-> FALSE]

\* s['name'][:2]: the numeral of the heading and the mark after it
SectionKey(section) == section.name.num

\* one entry of the 'sections' dict
SectionSummary(d, section) ==
    [name         |-> section.name,
     count        |-> Len(section.questions),
     questions    |-> [k \in 1..Len(section.questions) |->
                          section.questions[k].number],
     total_images |-> SectionRawImages(d, section)]

\* the dict comprehension: a later section with the same key replaces the
\* earlier entry
SectionsDict(d, secs) ==
    LET keys == {SectionKey(secs[k]) : k \in 1..Len(secs)}
        last(key) == CHOOSE k \in 1..Len(secs) :
                        /\ SectionKey(secs[k]) = key
                        /\ \A j \in 1..Len(secs) :
                              SectionKey(secs[j]) = key => j <= k
    IN  [key \in keys |-> SectionSummary(d, secs[last(key)])]

SuccessResult(d, secs, tq, ti, allq) ==
    [success         |-> TRUE,
     total_questions |-> tq,
     total_images    |-> ti,
     sections        |-> SectionsDict(d, secs),
     questions       |-> allq,
     validation      |-> validate_extraction_results(allq, tq, ti)]

\* mutant: the except branch returns what had been extracted
FailureResult_partial(allq) ==
    [success         |-> FALSE,
     error           |-> "error",
     total_questions |-> Len(allq),
     total_images    |-> 0,
     sections        |-> <<>>,
     questions       |-> allq,
     validation      |-> [issues |-> <<"error">>]]

\* the except branch; allq is what had been extracted when the step failed
FailureResult(allq) ==
    [success         |-> FALSE,
     error           |-> "error",
     total_questions |-> 0,
     total_images    |-> 0,
     sections        |-> <<>>,
     questions       |-> <<>>,
     validation      |-> [issues |-> <<"error">>]]

----------------------------------------------------------------------------
(* QuestionImageExtractor *)

\* the relationship table of the document part: relationship id -> image
\* part.  A blob is its first 16 bytes (pre) and the bytes after them (tail);
\* pre = 0 and tail = 0 is the blob of length zero.  "rA" and "rB" are two
\* different images with the same first 16 bytes; "rX" is in no table.
RelTable ==
    [rA |-> [pre |-> 1, tail |-> 1, ext |-> ".png", content_type |-> "image/png"],
     rB |-> [pre |-> 1, tail |-> 2, ext |-> ".jpg", content_type |-> "image/jpeg"],
     rC |-> [pre |-> 2, tail |-> 1, ext |-> "",     content_type |-> "image/gif"],
     rE |-> [pre |-> 0, tail |-> 0, ext |-> ".png", content_type |-> "image/png"]]

None == [pre |-> -1, tail |-> -1, ext |-> "", content_type |-> ""]

\* related_parts.get(rel_id)
related_parts_get(rel) == IF rel \in DOMAIN RelTable THEN RelTable[rel] ELSE None

Bytes(part) == [pre |-> part.pre, tail |-> part.tail]

\* bool(img_bytes): a blob of length zero is falsy
Truthy(bytes) == ~(bytes.pre = 0 /\ bytes.tail = 0)

extension_from_content_type(ct) ==
    IF ct = "image/jpeg" THEN ".jpg"
    ELSE IF ct = "image/png" THEN ".png"
    ELSE IF ct = "image/gif" THEN ".gif"
    ELSE IF ct = "image/bmp" THEN ".bmp"
    ELSE IF ct = "image/tiff" THEN ".tiff"
    ELSE IF ct = "image/x-emf" THEN ".emf"
    ELSE IF ct = "image/x-wmf" THEN ".wmf"
    ELSE ""

PartExtension(part) ==
    IF part.ext # "" THEN part.ext
    ELSE extension_from_content_type(part.content_type)

\* extract_image_from_run: None, or the bytes and extension of the part the
\* run's first relationship id names.  Only a missing part or a missing blob
\* gives None; a blob of length zero is returned like any other.
extract_image_from_run(run) ==
    IF run = <<>> THEN None
    ELSE IF related_parts_get(run[1]) = None THEN None
    ELSE related_parts_get(run[1])

\* mutant: the outcome of the write is ignored
save_image_data_ignores_failure(k, fails) == TRUE

\* save_image_data: TRUE when the k-th write of the call succeeds
save_image_data(k, fails) == k \notin fails

\* file_extension = ext if ext else '.png'
file_extension(ext) == IF ext # "" THEN ext ELSE ".png"

\* the random uuid4 suffix of the filename is left out of the record
Filename(number, index, ext) ==
    [number |-> number, index |-> index, ext |-> file_extension(ext)]

\* context_text = para_text[:100]
ContextText(text) == [text EXCEPT !.tlen = Min(@, 100)]

\* mutant: image_index counts every write, accepted or not
emit_counts_every_write(es, bytes, ext, env) ==
    IF bytes.pre \in es.seen_hashes THEN es
    ELSE LET es1 == [es EXCEPT !.seen_hashes = @ \cup {bytes.pre},
                               !.attempt = @ + 1,
                               !.written = Append(@, bytes),
                               !.image_index = @ + 1]
         IN  IF es1.attempt \notin env.fails
             THEN [es1 EXCEPT
                     !.images = Append(@,
                         [filename             |-> [number |-> env.number,
                                                    index  |-> es.image_index,
                                                    ext    |-> IF ext # "" THEN ext ELSE ".png"],
                          context_text         |-> [env.para_text EXCEPT
                                                      !.tlen = IF @ <= 100 THEN @ ELSE 100],
                          paragraph_index      |-> env.para_idx,
                          position_in_question |-> es.image_index,
                          image_type           |-> IF env.is_option_para
                                                   THEN "option" ELSE "material",
                          attempt              |-> es1.attempt])]
             ELSE es1

\* _emit(img_bytes, ext) in the paragraph env; es is the call's running state.
\* attempt numbers the calls of save_image_data and written lists the blobs
\* handed to it; both are bookkeeping of the model, as is the attempt field
\* of an image entry.
emit(es, bytes, ext, env) ==
    IF bytes.pre \in es.seen_hashes THEN es
    ELSE LET es1 == [es EXCEPT !.seen_hashes = @ \cup {bytes.pre},
                               !.attempt = @ + 1,
                               !.written = Append(@, bytes)]
         IN  IF save_image_data(es1.attempt, env.fails)
             THEN [es1 EXCEPT
                     !.images = Append(@,
                         [filename             |-> Filename(env.number, es.image_index, ext),
                          context_text         |-> ContextText(env.para_text),
                          paragraph_index      |-> env.para_idx,
                          position_in_question |-> es.image_index,
                          image_type           |-> IF env.is_option_para
                                                   THEN "option" ELSE "material",
                          attempt              |-> es1.attempt]),
                     !.image_index = @ + 1]
             ELSE es1

\* for run in para.runs: ... emit(...)
RECURSIVE EmitRuns(_, _, _)
EmitRuns(es, runs, env) ==
    IF runs = <<>> THEN es
    ELSE LET payload == extract_image_from_run(Head(runs))
         IN  EmitRuns(IF payload # None
                      THEN emit(es, Bytes(payload), PartExtension(payload), env)
                      ELSE es,
                      Tail(runs), env)

\* the r:embed / r:id values of the paragraph's XML, in document order
RECURSIVE Flatten(_)
Flatten(runs) == IF runs = <<>> THEN <<>> ELSE Head(runs) \o Flatten(Tail(runs))

\* the fallback scan of the paragraph's XML
RECURSIVE EmitFallback(_, _, _)
EmitFallback(es, rel_ids, env) ==
    IF rel_ids = <<>> THEN es
    ELSE LET part == related_parts_get(Head(rel_ids))
         IN  EmitFallback(IF part # None /\ Truthy(Bytes(part))
                          THEN emit(es, Bytes(part), PartExtension(part), env)
                          ELSE es,
                          Tail(rel_ids), env)

\* mutant: the option pattern applies from the first paragraph on
SeenInit_true == TRUE

\* seen_question_number before the first paragraph of the scan
SeenInit == FALSE

\* the body of "for para_idx in paragraph_indices"
ScanParagraph(d, q, fails, es, para_idx) ==
    IF ~(0 <= para_idx /\ para_idx < Len(d)) THEN es
    ELSE LET p    == d[para_idx + 1]
             seen == es.seen_question_number \/ para_idx = q.number_index
             env  == [number        |-> q.number,
                      para_text     |-> Text(p),
                      para_idx      |-> para_idx,
                      is_option_para |-> IsOption(p) /\ seen,
                      fails         |-> fails]
             es0  == [es EXCEPT !.seen_question_number = seen,
                                !.seen_hashes = {}]
         IN  EmitFallback(EmitRuns(es0, p.runs, env), Flatten(p.runs), env)

RECURSIVE ScanParagraphs(_, _, _, _, _)
ScanParagraphs(d, q, fails, es, idx) ==
    IF idx = <<>> THEN es
    ELSE ScanParagraphs(d, q, fails,
                        ScanParagraph(d, q, fails, es, Head(idx)), Tail(idx))

RECURSIVE SortedSet(_)
SortedSet(S) ==
    IF S = {} THEN <<>>
    ELSE LET m == CHOOSE m \in S : \A x \in S : m <= x
         IN  <<m>> \o SortedSet(S \ {m})

\* sorted({paragraph_index of the content}), or the paragraph_range when the
\* content has no paragraph
paragraph_indices(d, q) ==
    LET ps  == q.content.paragraphs
        set == {ps[k].paragraph_index : k \in 1..Len(ps)}
    IN  IF set # {} THEN SortedSet(set)
        ELSE Range(q.paragraph_range.lo, Min(q.paragraph_range.hi, Len(d)))

\* q is one question_data of the result; fails names the writes that fail.
\* Returns the running state at the end of the call; .images is the list
\* returned, .written the blobs handed to save_image_data in order.
extract_images_from_question(d, q, fails) ==
    ScanParagraphs(d, q, fails,
                   [images               |-> <<>>,
                    image_index          |-> 0,
                    attempt              |-> 0,
                    written              |-> <<>>,
                    seen_hashes          |-> {},
                    seen_question_number |-> SeenInit],
                   paragraph_indices(d, q))

----------------------------------------------------------------------------
(* The documents *)

\* a text, an option-looking and an empty paragraph with the runs r
TxtI(r) == Para("txt", 0, 5, r)
Opt(r)  == Para("opt", 0, 7, r)
EmpI(r) == Para("emp", 0, 0, r)

StructKinds == {"sec", "grp", "num", "txt"}

KindSeqs(n) == UNION {[1..m -> StructKinds] : m \in 0..n}

\* how many of the first i paragraphs are of kind k
CountKind(ks, i, k) == Cardinality({j \in 1..i : ks[j] = k})

\* the document with the kinds ks: question numbers run 1, 2, 3, ... and the
\* section numerals run through the six numerals of section_pattern
MkDoc(ks) ==
    [i \in 1..Len(ks) |->
        IF ks[i] = "sec" THEN Sec(((CountKind(ks, i, "sec") - 1) % 6) + 1)
        ELSE IF ks[i] = "grp" THEN Grp
        ELSE IF ks[i] = "num" THEN Num(CountKind(ks, i, "num"))
        ELSE Txt]

StructDocs == {MkDoc(ks) : ks \in KindSeqs(MaxLen)}

\* the run lists of the paragraphs that hold images
ImgRuns ==
    { <<>>,
      << <<"rA">> >>,
      << <<"rA">>, <<"rC">> >>,
      << <<"rA">>, <<"rB">> >>,
      << <<"rC">>, <<"rC">> >>,
      << <<"rX">>, <<"rA">> >>,
      << <<"rE">>, <<"rC">> >>,
      << <<"rC", "rA">> >> }

ImgParas == {TxtI(r) : r \in ImgRuns} \cup {Opt(r) : r \in ImgRuns}
               \cup {EmpI(r) : r \in ImgRuns}

OptParas == {Emp, TxtI(<<>>), Opt(<<>>), TxtI(<< <<"rA">> >>), Opt(<< <<"rA">> >>),
             Opt(<< <<"rA">>, <<"rC">> >>)}

\* one question with a paragraph before and a paragraph after its number line
ImageDocs == {<<Sec(1), p1, Num(1), p2>> : p1 \in ImgParas, p2 \in ImgParas}

\* a group of two questions with a preface paragraph
GroupImageDocs ==
    {<<Sec(1), Grp, p1, Num(1), Txt, Num(2), p2>> : p1 \in OptParas, p2 \in OptParas}

\* ["一、常识判断", "1", "历史知识题干"]
Doc3 == <<Sec(1), Num(1), Txt>>

\* ["二、资料分析", "（一）", "材料正文", "6", "问题一", "7", "问题二"]
Doc7 == <<Sec(2), Grp, Txt, Num(6), Txt, Num(7), Txt>>

\* a section with one group heading, then a section with two
DocTwoGroups == <<Sec(1), Grp, Num(1), Sec(2), Grp, Num(2), Grp, Num(3)>>

\* two section headings that begin with the same numeral
DocSameNumeral == <<Sec(1), Num(1), Txt, Sec(1), Num(2)>>

ScenarioDocs == {Doc3, Doc7, DocTwoGroups, DocSameNumeral}

\* the question numbers of the numbering documents
NumberRange == 1..5

\* a section of three questions with any numbers, in any order
NumberDocs ==
    {<<Sec(1), Num(a), Txt, Num(b), Txt, Num(c)>> :
        a \in NumberRange, b \in NumberRange, c \in NumberRange}

Docs == StructDocs \cup ImageDocs \cup GroupImageDocs \cup ScenarioDocs
            \cup NumberDocs

----------------------------------------------------------------------------
(* The state machine: extract_questions step by step, then the caller's    *)
(* loop of extract_images_from_question over result['questions']           *)

NoCall == [q |-> 0, fails |-> {}, images |-> <<>>, written |-> <<>>]

\* the two requests of the concurrent specification
Instances == {1, 2}

\* a request before its extract_questions call: every name of the call is a
\* local of the call, and so a field of the request
Idle ==
    [doc |-> <<>>, pc |-> "idle", sections |-> <<>>, si |-> 0,
     total_questions |-> 0, total_images |-> 0, all_questions |-> <<>>,
     result |-> NoResult, qi |-> 0, calls |-> <<>>, after |-> FALSE]

Init ==
    /\ doc \in Docs
    /\ pc = "open"
    /\ sections = <<>>
    /\ si = 0
    /\ total_questions = 0
    /\ total_images = 0
    /\ all_questions = <<>>
    /\ result = NoResult
    /\ qi = 0
    /\ call = NoCall
    /\ inst = [i \in Instances |-> Idle]
    /\ outdir = {}

\* doc = Document(docx_path)
Open ==
    /\ pc = "open"
    /\ pc' = "sections"
    /\ UNCHANGED <<doc, sections, si, total_questions, total_images,
                   all_questions, result, qi, call,
                   inst, outdir>>

\* sections = self.find_sections(doc)
FindSections ==
    /\ pc = "sections"
    /\ sections' = find_sections(doc)
    /\ si' = 1
    /\ pc' = IF sections' = <<>> THEN "validate" ELSE "scan"
    /\ UNCHANGED <<doc, total_questions, total_images, all_questions,
                   result, qi, call,
                   inst, outdir>>

\* one round of "for section in sections" of step 2
ScanSection ==
    /\ pc = "scan"
    /\ si <= Len(sections)
    /\ sections' = [sections EXCEPT
                      ![si].questions = find_questions_in_section(doc, sections[si])]
    /\ total_questions' = total_questions + Len(sections'[si].questions)
    /\ si' = IF si = Len(sections) THEN 1 ELSE si + 1
    /\ pc' = IF si = Len(sections) THEN "assemble" ELSE "scan"
    /\ UNCHANGED <<doc, total_images, all_questions, result, qi, call,
                   inst, outdir>>

\* one round of "for section in sections" of step 3
AssembleSection ==
    /\ pc = "assemble"
    /\ si <= Len(sections)
    /\ all_questions' = all_questions \o SectionQuestionData(doc, sections[si])
    /\ total_images' = total_images + SectionRawImages(doc, sections[si])
    /\ si' = si + 1
    /\ pc' = IF si = Len(sections) THEN "validate" ELSE "assemble"
    /\ UNCHANGED <<doc, sections, total_questions, result, qi, call,
                   inst, outdir>>

\* validate_extraction_results and the return of the result
Return ==
    /\ pc = "validate"
    /\ result' = SuccessResult(doc, sections, total_questions, total_images,
                               all_questions)
    /\ pc' = "images"
    /\ qi' = 1
    /\ UNCHANGED <<doc, sections, si, total_questions, total_images,
                   all_questions, call,
                   inst, outdir>>

\* a step of extract_questions raises: the except branch returns
Fail ==
    /\ pc \in {"open", "sections", "scan", "assemble", "validate"}
    /\ result' = FailureResult(all_questions)
    /\ pc' = "failed"
    /\ UNCHANGED <<doc, sections, si, total_questions, total_images,
                   all_questions, qi, call,
                   inst, outdir>>

\* how many writes the call for question q attempts
Attempts(d, q) == extract_images_from_question(d, q, {}).attempt

\* the caller's loop: extract_images_from_question for the next question
ExtractImages ==
    /\ pc = "images"
    /\ qi <= Len(result.questions)
    /\ \E fails \in SUBSET (1..Attempts(doc, result.questions[qi])) :
          LET es == extract_images_from_question(doc, result.questions[qi], fails)
          IN  call' = [q |-> qi, fails |-> fails,
                       images |-> es.images, written |-> es.written]
    /\ qi' = qi + 1
    /\ UNCHANGED <<doc, pc, sections, si, total_questions, total_images,
                   all_questions, result,
                   inst, outdir>>

Next ==
    \/ Open
    \/ FindSections
    \/ ScanSection
    \/ AssembleSection
    \/ Return
    \/ Fail
    \/ ExtractImages

Spec == Init /\ [][Next]_vars

----------------------------------------------------------------------------
(* Two requests at once.  Each request builds its own extractor objects    *)
(* and keeps the state of its calls in locals; the one thing the requests  *)
(* have in common is the output directory.  The storage is free of faults  *)
(* here: a write fails only when opening the file raises.                  *)

seqvars == <<doc, pc, sections, si, total_questions, total_images,
             all_questions, result, qi, call>>

DocA == <<Sec(1), TxtI(<< <<"rA">>, <<"rC">> >>), Num(1), Opt(<< <<"rA">> >>)>>
DocB == <<Sec(1), Grp, TxtI(<< <<"rA">> >>), Num(1), Txt, Num(2),
          Opt(<< <<"rA">>, <<"rC">> >>)>>

\* the documents of the concurrent requests
ConcDocs == {DocA, DocB, Doc7, DocTwoGroups}

\* mutant: opening raises when a file of the same question and position
\* is in the directory, whatever its suffix
open_wb_raises_on_same_question(dir, filepath) ==
    \E f \in dir : f.filepath.filename = filepath.filename

\* mutant: opening raises when another request has a file in the directory
open_wb_raises_when_shared(dir, filepath) ==
    \E f \in dir : f.filepath.suffix[1] # filepath.suffix[1]

\* open(filepath, 'wb') in the directory that makedirs(exist_ok=True) keeps:
\* the file is created, or truncated when it exists; no file of the
\* directory makes the call raise
open_wb_raises(dir, filepath) == FALSE

\* os.path.join(self.output_dir, filename); suffix stands for
\* uuid.uuid4().hex[:8], different for every write of every request
FilePath(i, qn, img) ==
    [filename |-> img.filename, suffix |-> <<i, qn, img.attempt>>]

\* f.write(image_data) on the files opened: a file of the same path is replaced
WriteFiles(dir, files) ==
    {f \in dir : \A g \in files : g.filepath # f.filepath} \cup files

\* the request has run its loop over result['questions'] to the end
Done(i) == inst[i].pc = "images" /\ inst[i].qi > Len(inst[i].result.questions)

InitConc ==
    /\ inst \in [Instances -> {[Idle EXCEPT !.doc = d, !.pc = "open"] : d \in ConcDocs}]
    /\ outdir = {}
    /\ doc = <<>>
    /\ pc = "idle"
    /\ sections = <<>>
    /\ si = 0
    /\ total_questions = 0
    /\ total_images = 0
    /\ all_questions = <<>>
    /\ result = NoResult
    /\ qi = 0
    /\ call = NoCall

\* doc = Document(docx_path); after notes whether the other request had
\* run to its end by then
COpen(i) ==
    /\ inst[i].pc = "open"
    /\ inst' = [inst EXCEPT ![i].pc = "sections", ![i].after = Done(3 - i)]
    /\ UNCHANGED <<outdir, seqvars>>

\* sections = self.find_sections(doc)
CFindSections(i) ==
    /\ inst[i].pc = "sections"
    /\ LET secs == find_sections(inst[i].doc)
       IN  inst' = [inst EXCEPT ![i].sections = secs,
                                ![i].si = 1,
                                ![i].pc = IF secs = <<>> THEN "validate" ELSE "scan"]
    /\ UNCHANGED <<outdir, seqvars>>

\* one round of "for section in sections" of step 2
CScanSection(i) ==
    /\ inst[i].pc = "scan"
    /\ inst[i].si <= Len(inst[i].sections)
    /\ LET s  == inst[i]
           qs == find_questions_in_section(s.doc, s.sections[s.si])
       IN  inst' = [inst EXCEPT
                      ![i].sections = [@ EXCEPT ![s.si].questions = qs],
                      ![i].total_questions = @ + Len(qs),
                      ![i].si = IF s.si = Len(s.sections) THEN 1 ELSE s.si + 1,
                      ![i].pc = IF s.si = Len(s.sections) THEN "assemble" ELSE "scan"]
    /\ UNCHANGED <<outdir, seqvars>>

\* one round of "for section in sections" of step 3
CAssembleSection(i) ==
    /\ inst[i].pc = "assemble"
    /\ inst[i].si <= Len(inst[i].sections)
    /\ LET s == inst[i]
       IN  inst' = [inst EXCEPT
                      ![i].all_questions = @ \o SectionQuestionData(s.doc, s.sections[s.si]),
                      ![i].total_images = @ + SectionRawImages(s.doc, s.sections[s.si]),
                      ![i].si = @ + 1,
                      ![i].pc = IF s.si = Len(s.sections) THEN "validate" ELSE "assemble"]
    /\ UNCHANGED <<outdir, seqvars>>

\* validate_extraction_results and the return of the result
CReturn(i) ==
    /\ inst[i].pc = "validate"
    /\ LET s == inst[i]
       IN  inst' = [inst EXCEPT
                      ![i].result = SuccessResult(s.doc, s.sections, s.total_questions,
                                                  s.total_images, s.all_questions),
                      ![i].pc = "images",
                      ![i].qi = 1]
    /\ UNCHANGED <<outdir, seqvars>>

\* a step of extract_questions raises: the except branch returns
CFail(i) ==
    /\ inst[i].pc \in {"open", "sections", "scan", "assemble", "validate"}
    /\ inst' = [inst EXCEPT ![i].result = FailureResult(inst[i].all_questions),
                            ![i].pc = "failed"]
    /\ UNCHANGED <<outdir, seqvars>>

\* the writes of the call for question q that fail: those whose open raises
RaisingWrites(dir, i, qn, d, q) ==
    LET dry == extract_images_from_question(d, q, {})
    IN  {k \in 1..Len(dry.images) : open_wb_raises(dir, FilePath(i, qn, dry.images[k]))}

\* the caller's loop: extract_images_from_question for the next question,
\* its files written into the common directory
CExtractImages(i) ==
    /\ inst[i].pc = "images"
    /\ inst[i].qi <= Len(inst[i].result.questions)
    /\ LET s     == inst[i]
           q     == s.result.questions[s.qi]
           es    == extract_images_from_question(s.doc, q,
                        RaisingWrites(outdir, i, s.qi, s.doc, q))
           files == {[filepath |-> FilePath(i, s.qi, es.images[k]),
                      data     |-> es.written[es.images[k].attempt]] :
                         k \in 1..Len(es.images)}
       IN  /\ inst' = [inst EXCEPT
                         ![i].calls = Append(@, [images |-> es.images,
                                                 written |-> es.written]),
                         ![i].qi = @ + 1]
           /\ outdir' = WriteFiles(outdir, files)
    /\ UNCHANGED seqvars

NextConc ==
    \E i \in Instances :
        \/ COpen(i)
        \/ CFindSections(i)
        \/ CScanSection(i)
        \/ CAssembleSection(i)
        \/ CReturn(i)
        \/ CFail(i)
        \/ CExtractImages(i)

SpecConc == InitConc /\ [][NextConc]_vars

----------------------------------------------------------------------------
(* validate_extraction_results on its own: its three arguments are drawn   *)
(* independently, the counts around the expected ones                      *)

\* the values of total_questions, around the expected count
QuestionCounts == (ExpectedQuestions - 2)..(ExpectedQuestions + 2)

\* the image counts, around the expected count
ImageCounts == {0, ExpectedImages - 1, ExpectedImages, ExpectedImages + 1}

\* n questions numbered 1, 2, ... with the number after position gap left
\* out (gap = 0: no number left out)
NumberedQuestions(n, gap) ==
    [k \in 1..n |-> [number |-> IF gap > 0 /\ k > gap THEN k + 1 ELSE k]]

\* the question lists handed to the validator
QuestionLists == {NumberedQuestions(n, gap) : n \in 0..4, gap \in 0..3}

InitValidate ==
    /\ pc = "validator"
    /\ total_questions \in QuestionCounts
    /\ total_images \in ImageCounts
    /\ all_questions \in QuestionLists
    /\ result = NoResult
    /\ doc = <<>>
    /\ sections = <<>>
    /\ si = 0
    /\ qi = 0
    /\ call = NoCall
    /\ inst = [i \in Instances |-> Idle]
    /\ outdir = {}

\* validation = self.validate_extraction_results(all_questions, total_questions, total_images)
Validate ==
    /\ pc = "validator"
    /\ result' = validate_extraction_results(all_questions, total_questions,
                                             total_images)
    /\ pc' = "validated"
    /\ UNCHANGED <<doc, sections, si, total_questions, total_images,
                   all_questions, qi, call, inst, outdir>>

NextValidate == Validate

SpecValidate == InitValidate /\ [][NextValidate]_vars

----------------------------------------------------------------------------
(* What the claims speak about *)

\* find_sections has returned
SectionsFound == si >= 1

\* extract_questions has returned its successful result
Succeeded == pc = "images"

\* the questions of all sections in the order of all_questions, each with
\* the index of its section
RECURSIVE FlatFrom(_)
FlatFrom(k) ==
    IF k > Len(sections) THEN <<>>
    ELSE [m \in 1..Len(sections[k].questions) |->
             [sec |-> k, q |-> sections[k].questions[m]]] \o FlatFrom(k + 1)

FlatQ == FlatFrom(1)

\* the paragraph indices of [a, b) whose paragraph has text or an image
KeptIdx(a, b) ==
    LET kept(i) == doc[i + 1].tlen > 0 \/ doc[i + 1].runs # <<>>
    IN  SelectSeq(Range(a, Min(b, Len(doc))), kept)

\* the paragraph indices of a content, in its order
ContentIdx(c) == [k \in 1..Len(c.paragraphs) |-> c.paragraphs[k].paragraph_index]

\* every record of the content is the record of its paragraph
ContentOfDoc(c) ==
    \A k \in 1..Len(c.paragraphs) :
        /\ c.paragraphs[k].text = Text(doc[c.paragraphs[k].paragraph_index + 1])
        /\ c.paragraphs[k].text_length = doc[c.paragraphs[k].paragraph_index + 1].tlen

Occurrences(s, x) == Cardinality({k \in 1..Len(s) : s[k] = x})

RangeSet(q) == {i \in 0..Len(doc) : q.start <= i /\ i < q.end}

\* the smallest number_index of the questions of q's group in the list qs
FirstNumberIndex(qs, q) ==
    LET same == {qs[m].number_index : m \in {m \in 1..Len(qs) : qs[m].group_id = q.group_id}}
    IN  CHOOSE x \in same : \A y \in same : x <= y

----------------------------------------------------------------------------
(* C1 .. C10 *)

\* C1: every Question returned by find_questions_in_section has
\* start <= number_index < end (stated as the claim states it; the code
\* breaks it when a number line directly follows another number line or
\* directly precedes a group heading).
C1_NumberLineInsideRange ==
    \A k \in 1..Len(sections) : \A m \in 1..Len(sections[k].questions) :
        LET q == sections[k].questions[m]
        IN  q.start <= q.number_index /\ q.number_index < q.end

\* C2: any two distinct Questions returned for the same Section have
\* disjoint half-open paragraph ranges [start, end).
C2_RangesDisjoint ==
    \A k \in 1..Len(sections) :
      \A m, n \in 1..Len(sections[k].questions) :
        m # n => RangeSet(sections[k].questions[m])
                   \cap RangeSet(sections[k].questions[n]) = {}

\* C2 witness: a section with a group heading and three questions, two of
\* them with paragraphs in their ranges.
C2_Witness ==
    \E k \in 1..Len(sections) :
        /\ Len(sections[k].questions) >= 3
        /\ \E m \in 1..Len(sections[k].questions) :
              sections[k].questions[m].group_id > 0
        /\ \E m, n \in 1..Len(sections[k].questions) :
              /\ m # n
              /\ RangeSet(sections[k].questions[m]) # {}
              /\ RangeSet(sections[k].questions[n]) # {}

\* C3: with P the paragraphs from the group start up to the first
\* question's number line, the first question of a group has the content of
\* its own range only, with every paragraph of P exactly once, and every
\* other question of the group has P followed by its own range.
C3_PrefacePropagation ==
    Succeeded =>
      /\ Len(result.questions) = Len(FlatQ)
      /\ \A j \in 1..Len(FlatQ) :
           LET q     == FlatQ[j].q
               qs    == sections[FlatQ[j].sec].questions
               first == FirstNumberIndex(qs, q)
               P     == KeptIdx(q.group_start, first)
               own   == KeptIdx(q.start, q.end)
               c     == result.questions[j].content
           IN  /\ ContentOfDoc(c)
               /\ IF q.number_index = first
                  THEN /\ ContentIdx(c) = own
                       /\ \A k \in 1..Len(P) : Occurrences(ContentIdx(c), P[k]) = 1
                  ELSE ContentIdx(c) = P \o own

\* C3 witness: a group with a preface of at least one paragraph after the
\* group heading and a second question that has paragraphs of its own.
C3_Witness ==
    /\ Succeeded
    /\ \E j \in 1..Len(FlatQ) :
         LET q     == FlatQ[j].q
             qs    == sections[FlatQ[j].sec].questions
             first == FirstNumberIndex(qs, q)
         IN  /\ q.group_id > 0
             /\ q.number_index # first
             /\ Len(KeptIdx(q.group_start, first)) >= 2
             /\ Len(KeptIdx(q.start, q.end)) >= 2

\* the number of section-heading paragraphs of the document
HeadingCount == Cardinality({i \in 1..Len(doc) : IsSection(doc[i])})

NoGroupHeadings == \A i \in 1..Len(doc) : ~IsDatasetHeading(doc[i])

\* how many Sections hold the paragraph index i
Holders(i) ==
    Cardinality({k \in 1..Len(sections) :
                    sections[k].start_para <= i /\ i < sections[k].end_para})

SectionsContiguous ==
    \A k \in 1..(Len(sections) - 1) :
        sections[k].end_para = sections[k + 1].start_para

\* C4 as claimed: N headings and no group headings give N Sections that are
\* contiguous and hold every paragraph index 0 .. len-1 exactly once.
C4_SectionsPartitionDocument ==
    (SectionsFound /\ NoGroupHeadings) =>
        /\ Len(sections) = HeadingCount
        /\ SectionsContiguous
        /\ \A i \in 0..(Len(doc) - 1) : Holders(i) = 1

\* the index of the first section heading; the document length if none
FirstHeading ==
    LET heads == {i \in 0..(Len(doc) - 1) : IsSection(doc[i + 1])}
    IN  IF heads = {} THEN Len(doc)
        ELSE CHOOSE i \in heads : \A j \in heads : i <= j

\* C4 amended: N headings and no group headings give N Sections that are
\* contiguous and hold every paragraph index from the first section heading
\* to the end exactly once; the paragraphs before the first heading are in
\* no Section.
C4_SectionsPartitionFromFirstHeading ==
    (SectionsFound /\ NoGroupHeadings) =>
        /\ Len(sections) = HeadingCount
        /\ SectionsContiguous
        /\ \A i \in 0..(Len(doc) - 1) :
              Holders(i) = IF i >= FirstHeading THEN 1 ELSE 0

\* C4 witness: two sections found in a document that has paragraphs before
\* its first heading.
C4_Witness ==
    /\ SectionsFound
    /\ NoGroupHeadings
    /\ Len(sections) >= 2
    /\ FirstHeading >= 1
    /\ sections[1].end_para - sections[1].start_para >= 2

\* the question_data the last extract_images_from_question call was given
CallQuestion == result.questions[call.q]

ImageCalled == Succeeded /\ call.q >= 1

\* C5: an extracted image has role 'option' exactly when its paragraph's
\* text matches the option pattern and its paragraph index is at or after
\* the question's number line; any other image has role 'material'.
C5_OptionOnlyAfterNumberLine ==
    ImageCalled =>
      \A k \in 1..Len(call.images) :
        LET img == call.images[k]
            opt == /\ IsOption(doc[img.paragraph_index + 1])
                   /\ img.paragraph_index >= CallQuestion.number_index
        IN  /\ img.image_type \in {"option", "material"}
            /\ img.image_type = "option" <=> opt

\* C5 witness: one call returns a 'material' image of an option-looking
\* paragraph of the merged group preface and an 'option' image of an
\* option-looking paragraph after the number line.
C5_Witness ==
    /\ ImageCalled
    /\ \E k, m \in 1..Len(call.images) :
         /\ IsOption(doc[call.images[k].paragraph_index + 1])
         /\ call.images[k].paragraph_index < CallQuestion.paragraph_range.lo
         /\ call.images[k].image_type = "material"
         /\ IsOption(doc[call.images[m].paragraph_index + 1])
         /\ call.images[m].paragraph_index > CallQuestion.number_index
         /\ call.images[m].image_type = "option"

\* C6: when a step of extract_questions fails the call returns (it does not
\* raise) success = false with an error, zero totals, no sections and no
\* questions, whatever had been extracted before the failure; and only a
\* failed call returns success = false.
C6_FailureReturnsNoPartialResult ==
    /\ pc = "failed" =>
         /\ result.success = FALSE
         /\ result.error = "error"
         /\ result.total_questions = 0
         /\ result.total_images = 0
         /\ result.sections = <<>>
         /\ result.questions = <<>>
    /\ pc = "images" => result.success = TRUE
    /\ pc \notin {"failed", "images"} => result = NoResult

\* C6 witness: the call failed after questions had been extracted and
\* counted.
C6_Witness ==
    /\ pc = "failed"
    /\ all_questions # <<>>
    /\ total_questions > 0

\* role, context text and paragraph index of the images of a list, with the
\* write each came from
Essence(images) ==
    [k \in 1..Len(images) |->
        [image_type      |-> images[k].image_type,
         context_text    |-> images[k].context_text,
         paragraph_index |-> images[k].paragraph_index,
         attempt         |-> images[k].attempt]]

\* C7: an image whose write fails has no entry in the returned list, and the
\* images whose writes succeed are returned, in order, with the role,
\* context text and paragraph index they have when no write fails.
C7_FailedWriteOmitsOnlyThatImage ==
    ImageCalled =>
      LET all == extract_images_from_question(doc, CallQuestion, {}).images
          ok(e) == e.attempt \notin call.fails
      IN  /\ \A k \in 1..Len(call.images) : call.images[k].attempt \notin call.fails
          /\ Essence(call.images) = SelectSeq(Essence(all), ok)

\* C7 witness: a write failed and a later write of the same call succeeded,
\* next to an earlier one that succeeded.
C7_Witness ==
    /\ ImageCalled
    /\ \E f \in call.fails : \E k, m \in 1..Len(call.images) :
          call.images[k].attempt < f /\ f < call.images[m].attempt

\* two questions of the document are under different group headings
DifferentHeadings(a, b) ==
    /\ a.q.group_id > 0
    /\ b.q.group_id > 0
    /\ <<a.sec, a.q.group_start>> # <<b.sec, b.q.group_start>>

\* C8 as claimed: two different group headings of one document, in the same
\* Section or not, never give their questions the same group_id, and the
\* ids increase in first-seen order.
C8_GroupIdsUniqueInDocument ==
    \A i, j \in 1..Len(FlatQ) :
        (i < j /\ DifferentHeadings(FlatQ[i], FlatQ[j]))
            => FlatQ[i].q.group_id < FlatQ[j].q.group_id

\* C8 amended: within one Section two different group headings never give
\* their questions the same group_id and the ids increase in first-seen
\* order; the counter restarts at 0 in every Section.
C8_GroupIdsUniqueInSection ==
    \A k \in 1..Len(sections) :
      LET qs == sections[k].questions
      IN  /\ \A m, n \in 1..Len(qs) :
               /\ (m < n /\ qs[m].group_start # qs[n].group_start)
                     => qs[m].group_id < qs[n].group_id
               /\ qs[m].group_start = qs[n].group_start
                     => qs[m].group_id = qs[n].group_id
          /\ \A m \in 1..Len(qs) :
               qs[m].group_id =
                  Cardinality({i \in sections[k].start_para..(qs[m].number_index - 1) :
                                  IsDatasetHeading(doc[i + 1])})

\* C8 witness: a Section with questions under two different group headings,
\* after a Section that had a group heading of its own.
C8_Witness ==
    \E k \in 2..Len(sections) :
        /\ \E m, n \in 1..Len(sections[k].questions) :
              /\ sections[k].questions[m].group_id = 1
              /\ sections[k].questions[n].group_id = 2
        /\ \E m \in 1..Len(sections[k - 1].questions) :
              sections[k - 1].questions[m].group_id = 1

\* C9 as claimed: the 3-paragraph document gives one Section and one
\* Question 1 of group 0 that spans paragraphs 1-2 and whose content is the
\* stem paragraph alone.
C9_ThreeParagraphsAsClaimed ==
    (Succeeded /\ doc = Doc3) =>
        /\ Len(sections) = 1
        /\ Len(result.questions) = 1
        /\ result.questions[1].number = 1
        /\ result.questions[1].group_id = 0
        /\ result.questions[1].paragraph_range = [lo |-> 1, hi |-> 3]
        /\ ContentIdx(result.questions[1].content) = <<2>>

\* C9 amended: the 3-paragraph document gives one Section and one Question
\* 1 of group 0 whose range starts at the section heading, spans paragraphs
\* 0-2, and whose content is the heading, the number line and the stem.
C9_ThreeParagraphs ==
    (Succeeded /\ doc = Doc3) =>
        /\ Len(sections) = 1
        /\ Len(result.questions) = 1
        /\ result.total_questions = 1
        /\ result.questions[1].number = 1
        /\ result.questions[1].group_id = 0
        /\ result.questions[1].number_index = 1
        /\ result.questions[1].paragraph_range = [lo |-> 0, hi |-> 3]
        /\ ContentIdx(result.questions[1].content) = <<0, 1, 2>>
        /\ ContentOfDoc(result.questions[1].content)

\* C9 witness: the extraction of the 3-paragraph document has returned.
C9_Witness == Succeeded /\ doc = Doc3 /\ Len(result.questions) = 1

\* C10 as claimed: the 7-paragraph document gives group 1 with Question 6 =
\* [M, S1] and Question 7 = [M, S2] and no other paragraph in either.
C10_SevenParagraphsAsClaimed ==
    (Succeeded /\ doc = Doc7) =>
        /\ Len(result.questions) = 2
        /\ result.questions[1].number = 6
        /\ result.questions[2].number = 7
        /\ result.questions[1].group_id = 1
        /\ result.questions[2].group_id = 1
        /\ ContentIdx(result.questions[1].content) = <<2, 4>>
        /\ ContentIdx(result.questions[2].content) = <<2, 6>>

\* C10 amended: the 7-paragraph document gives group 1 whose preface is the
\* group heading and M; Question 6 has its own range only, [group heading,
\* M, "6", S1]; Question 7 has the preface followed by its own range,
\* [group heading, M, "7", S2].
C10_SevenParagraphs ==
    (Succeeded /\ doc = Doc7) =>
        /\ Len(result.questions) = 2
        /\ result.questions[1].number = 6
        /\ result.questions[2].number = 7
        /\ result.questions[1].group_id = 1
        /\ result.questions[2].group_id = 1
        /\ result.questions[1].paragraph_range = [lo |-> 1, hi |-> 5]
        /\ result.questions[2].paragraph_range = [lo |-> 5, hi |-> 7]
        /\ ContentIdx(result.questions[1].content) = <<1, 2, 3, 4>>
        /\ ContentIdx(result.questions[2].content) = <<1, 2, 5, 6>>
        /\ ContentOfDoc(result.questions[1].content)
        /\ ContentOfDoc(result.questions[2].content)

\* C10 witness: the extraction of the 7-paragraph document has returned.
C10_Witness == Succeeded /\ doc = Doc7 /\ Len(result.questions) = 2

----------------------------------------------------------------------------
(* C11 .. C20 *)

\* the numbers of the questions of the result
ResultNumbers == [k \in 1..Len(result.questions) |-> result.questions[k].number]

\* the k-th smallest of the numbers s, repeated numbers counted each time
NthSmallest(s, k) ==
    CHOOSE x \in {s[i] : i \in 1..Len(s)} :
        /\ Cardinality({i \in 1..Len(s) : s[i] < x}) < k
        /\ k <= Cardinality({i \in 1..Len(s) : s[i] <= x})

\* the positions k of the sorted numbers whose number is not one more than
\* the number before it
Discontinuities(s) ==
    {k \in 2..Len(s) : NthSmallest(s, k) # NthSmallest(s, k - 1) + 1}

\* the discontinuity issues of the validation report
ReportedDiscontinuities ==
    LET isDisc(e) == e.issue = "discontinuity"
    IN  SelectSeq(result.validation.issues, isDisc)

\* C11: the report holds at most one discontinuity issue; it holds one
\* exactly when the sorted numbers have a gap or a duplicate, and then it
\* names the first such pair of the sorted numbers (2 -> 4 for 1, 2, 4).
C11_FirstDiscontinuityOnly ==
    Succeeded =>
      LET bad == Discontinuities(ResultNumbers)
      IN  IF bad = {} THEN ReportedDiscontinuities = <<>>
          ELSE LET k == CHOOSE k \in bad : \A j \in bad : k <= j
               IN  ReportedDiscontinuities =
                     <<[issue |-> "discontinuity",
                        from  |-> NthSmallest(ResultNumbers, k - 1),
                        to    |-> NthSmallest(ResultNumbers, k)]>>

\* C11 witness: the questions are numbered 1, 2, 4 and the one issue names
\* the gap 2 -> 4.
C11_Witness ==
    /\ Succeeded
    /\ ResultNumbers = <<1, 2, 4>>
    /\ ReportedDiscontinuities = <<[issue |-> "discontinuity", from |-> 2, to |-> 4]>>

\* the bytes of the k-th image of the last call's list: the blob its write
\* was given
EntryBytes(k) == call.written[call.images[k].attempt]

\* the paragraph indices of the content of the question of the last call
CallParagraphs ==
    {CallQuestion.content.paragraphs[k].paragraph_index :
        k \in 1..Len(CallQuestion.content.paragraphs)}

\* the relationship ids the runs of paragraph i name
Refs(i) ==
    UNION {{doc[i + 1].runs[r][j] : j \in 1..Len(doc[i + 1].runs[r])} :
              r \in 1..Len(doc[i + 1].runs)}

\* the id resolves to a part whose blob has at least one byte
Payload(rel) ==
    /\ rel \in DOMAIN RelTable
    /\ RelTable[rel].pre # 0 \/ RelTable[rel].tail # 0

BlobOf(rel) == [pre |-> RelTable[rel].pre, tail |-> RelTable[rel].tail]

\* how many images of the last call come from paragraph i with the bytes b
EntriesOf(i, b) ==
    Cardinality({k \in 1..Len(call.images) :
                    call.images[k].paragraph_index = i /\ EntryBytes(k) = b})

\* C13: when no write fails, two resources of one paragraph of the content
\* that resolve to non-empty payloads with different bytes give two image
\* entries, whatever leading bytes they share (stated as the claim states
\* it; the code keys its per-paragraph dedup on the first 16 bytes alone).
C13_DifferentBytesBothExtracted ==
    (ImageCalled /\ call.fails = {}) =>
      \A i \in CallParagraphs : \A r1, r2 \in Refs(i) :
        (Payload(r1) /\ Payload(r2) /\ BlobOf(r1) # BlobOf(r2))
           => EntriesOf(i, BlobOf(r1)) >= 1 /\ EntriesOf(i, BlobOf(r2)) >= 1

\* C14: when no write fails, a resource with a payload is emitted exactly
\* once for every paragraph of the content that references it: at most once
\* however often the paragraph references it, and again for every other
\* paragraph (stated as the claim states it; a resource that shares its
\* first 16 bytes with an earlier, different resource of the same paragraph
\* is not emitted for that paragraph at all).
C14_OncePerReferencingParagraph ==
    (ImageCalled /\ call.fails = {}) =>
      \A i \in CallParagraphs : \A r \in Refs(i) :
        Payload(r) => EntriesOf(i, BlobOf(r)) = 1

\* C19: the images of one call carry the positions 0, 1, ..., n-1 in list
\* order, whatever was deduplicated and whichever writes failed, and the
\* position in each filename is the image's position_in_question.
C19_PositionsGapFree ==
    ImageCalled =>
      \A k \in 1..Len(call.images) :
        /\ call.images[k].position_in_question = k - 1
        /\ call.images[k].filename.index = call.images[k].position_in_question
        /\ call.images[k].filename.number = CallQuestion.number

\* C19 witness: a call with a failed first write, a paragraph that names one
\* resource twice, and two images returned.
C19_Witness ==
    /\ ImageCalled
    /\ 1 \in call.fails
    /\ Len(call.images) >= 2
    /\ \E i \in CallParagraphs :
          Len(Flatten(doc[i + 1].runs)) > Cardinality(Refs(i))

\* C20: a reference whose payload cannot be resolved or has zero bytes
\* gives no written file and no image entry, and the resources after it in
\* the same paragraph are still extracted (stated as the claim states it;
\* a zero-byte blob found through a run is written and returned).
C20_NoEntryForMissingOrEmptyPayload ==
    ImageCalled =>
      /\ \A k \in 1..Len(call.written) : Truthy(call.written[k])
      /\ \A k \in 1..Len(call.images) : Truthy(EntryBytes(k))
      /\ call.fails = {} =>
           \A i \in CallParagraphs :
             (\E r \in Refs(i) : ~Payload(r)) =>
                \E r \in Refs(i) : Payload(r) /\ EntriesOf(i, BlobOf(r)) >= 1

\* the group headings with an index in a .. b - 1
HeadingsIn(a, b) == {i \in a..(b - 1) : IsDatasetHeading(doc[i + 1])}

\* the question-number lines with an index in a .. b - 1
NumbersIn(a, b) == {i \in a..(b - 1) : IsQuestionNumber(doc[i + 1])}

MaxOf(S) == CHOOSE x \in S : \A y \in S : y <= x

\* q is the first question opened after the most recent group heading
FirstAfterHeading(k, q) ==
    /\ HeadingsIn(sections[k].start_para, q.number_index) # {}
    /\ NumbersIn(MaxOf(HeadingsIn(sections[k].start_para, q.number_index)),
                 q.number_index) = {}

\* C16: the first Question opened after a group heading starts at the index
\* of that most recent group heading, with or without earlier questions in
\* the section, and every paragraph from the heading up to the question's
\* number line is in the question's range.
C16_FirstOfGroupStartsAtHeading ==
    \A k \in 1..Len(sections) : \A m \in 1..Len(sections[k].questions) :
        LET q == sections[k].questions[m]
            h == MaxOf(HeadingsIn(sections[k].start_para, q.number_index))
        IN  FirstAfterHeading(k, q) =>
              /\ q.start = h
              /\ \A i \in h..(q.number_index - 1) : i \in RangeSet(q)

\* C16 witness: a question that is not the first of its section opens a
\* group whose heading is followed by preface paragraphs.
C16_Witness ==
    \E k \in 1..Len(sections) : \E m \in 2..Len(sections[k].questions) :
        LET q == sections[k].questions[m]
        IN  /\ FirstAfterHeading(k, q)
            /\ q.number_index >=
                 MaxOf(HeadingsIn(sections[k].start_para, q.number_index)) + 3

OwnTextLength(a, b) ==
    SumSeq([k \in 1..(Min(b, Len(doc)) - a) |-> doc[a + k].tlen])

OwnImages(a, b) ==
    SumSeq([k \in 1..(Min(b, Len(doc)) - a) |->
               IF doc[a + k].kind = "opt" THEN 0 ELSE Len(doc[a + k].runs)])

\* section k has no group heading and its first number line directly
\* follows the section heading
PlainSection(k) ==
    /\ HeadingsIn(sections[k].start_para, sections[k].end_para) = {}
    /\ sections[k].questions # <<>>
    /\ sections[k].questions[1].number_index = sections[k].start_para + 1

\* C18: in such a section every non-first question's content is the content
\* of its own range: no paragraph prepended, nothing added to total_images
\* or total_text_length (stated as the claim states it; the code takes the
\* section heading for the preface of the implicit group).
C18_PlainSectionHasNoPreface ==
    Succeeded =>
      \A j \in 1..Len(FlatQ) :
        LET q == FlatQ[j].q
            c == result.questions[j].content
        IN  (PlainSection(FlatQ[j].sec)
               /\ q.number_index # sections[FlatQ[j].sec].questions[1].number_index)
            => /\ ContentIdx(c) = KeptIdx(q.start, q.end)
               /\ c.total_text_length = OwnTextLength(q.start, q.end)
               /\ c.total_images = OwnImages(q.start, q.end)

\* what a request gets when it runs alone
AloneSections(d) ==
    [k \in 1..Len(find_sections(d)) |->
        [find_sections(d)[k] EXCEPT
            !.questions = find_questions_in_section(d, find_sections(d)[k])]]

RECURSIVE AloneQuestions(_, _, _)
AloneQuestions(d, secs, k) ==
    IF k > Len(secs) THEN <<>>
    ELSE SectionQuestionData(d, secs[k]) \o AloneQuestions(d, secs, k + 1)

AloneResult(d) ==
    LET secs == AloneSections(d)
    IN  SuccessResult(d, secs,
                      SumSeq([k \in 1..Len(secs) |-> Len(secs[k].questions)]),
                      SumSeq([k \in 1..Len(secs) |-> SectionRawImages(d, secs[k])]),
                      AloneQuestions(d, secs, 1))

AloneImages(d, q) == extract_images_from_question(d, q, {}).images

\* the blobs a document can hold
Blobs == {Bytes(RelTable[r]) : r \in DOMAIN RelTable}

\* how many image entries of request i hold the bytes b
BlobCount(i, b) ==
    SumSeq([k \in 1..Len(inst[i].calls) |->
              Cardinality({j \in 1..Len(inst[i].calls[k].images) :
                  inst[i].calls[k].written[inst[i].calls[k].images[j].attempt] = b})])

----------------------------------------------------------------------------
(* C21 .. C30 *)

\* C21: the Sections of find_sections are contiguous and non-overlapping:
\* each end_para is the next start_para, every Section has
\* start_para < end_para, and the last end_para is the document length.
C21_SectionsContiguous ==
    SectionsFound =>
        /\ \A k \in 1..(Len(sections) - 1) :
              sections[k].end_para = sections[k + 1].start_para
        /\ \A k \in 1..Len(sections) :
              sections[k].start_para < sections[k].end_para
        /\ sections # <<>> => sections[Len(sections)].end_para = Len(doc)

\* C21 witness: three Sections found, the first of one paragraph only, the
\* last running over several paragraphs to the end of the document.
C21_Witness ==
    /\ SectionsFound
    /\ Len(sections) = 3
    /\ sections[1].end_para = sections[1].start_para + 1
    /\ sections[3].end_para >= sections[3].start_para + 2

\* C22: a Question's group_id is the number of group headings of its section
\* before its number line: 0 for a question before any group heading, and 0
\* for every question of a section without group headings.
C22_GroupIdCountsHeadings ==
    \A k \in 1..Len(sections) : \A m \in 1..Len(sections[k].questions) :
        sections[k].questions[m].group_id
          = Cardinality(HeadingsIn(sections[k].start_para,
                                   sections[k].questions[m].number_index))

\* C22 witness: a section with a question before any group heading and a
\* question after two group headings.
C22_Witness ==
    \E k \in 1..Len(sections) :
        LET qs == sections[k].questions
        IN  /\ Len(qs) >= 2
            /\ qs[1].group_id = 0
            /\ qs[Len(qs)].group_id = 2

\* C24: within a Section the ranges are contiguous: each Question starts
\* where the Question before it ends, so every paragraph from the first
\* start to the last end is in a range.
C24_RangesContiguous ==
    \A k \in 1..Len(sections) :
        LET qs == sections[k].questions
        IN  /\ \A m \in 1..(Len(qs) - 1) : qs[m + 1].start = qs[m].end
            /\ qs # <<>> =>
                 \A i \in qs[1].start..(qs[Len(qs)].end - 1) :
                    \E m \in 1..Len(qs) : i \in RangeSet(qs[m])

\* C24 witness: three Questions, a group heading between the first two,
\* ordinary paragraphs between the last two.
C24_Witness ==
    \E k \in 1..Len(sections) :
        LET qs == sections[k].questions
        IN  /\ Len(qs) = 3
            /\ qs[1].group_id = 0
            /\ qs[2].group_id = 1
            /\ qs[3].start >= qs[2].number_index + 2

\* C25: no Question's range holds a group heading after its number line
\* (stated as the claim states it; the code sets the end of the last
\* question again at every later group heading and number line).
C25_NoHeadingAfterNumberLine ==
    \A k \in 1..Len(sections) : \A m \in 1..Len(sections[k].questions) :
        LET q == sections[k].questions[m]
        IN  q.end # NoEnd => HeadingsIn(q.number_index + 1, q.end) = {}

\* C26: every question-number line inside a Question's range is the
\* Question's own (stated as the claim states it; a Question closed at its
\* own number line leaves that line to the next Question).
C26_NoForeignNumberLine ==
    \A k \in 1..Len(sections) : \A m \in 1..Len(sections[k].questions) :
        LET q == sections[k].questions[m]
        IN  q.end # NoEnd => NumbersIn(q.start, q.end) \subseteq {q.number_index}

\* how many issues of the kind the validation holds
IssueCount(kind) ==
    Cardinality({k \in 1..Len(result.issues) : result.issues[k].issue = kind})

\* C23 as claimed: one issue per shortfall; a question-count issue only when
\* total_questions is below the expected count, an image-count issue only
\* when total_images is below its baseline.
C23_IssueOnlyOnShortfall ==
    pc = "validated" =>
        /\ IssueCount("question_count")
             = IF total_questions < ExpectedQuestions THEN 1 ELSE 0
        /\ IssueCount("image_count")
             = IF total_images < ExpectedImages THEN 1 ELSE 0

\* C23 amended: exactly one question-count issue whenever total_questions
\* differs from the expected count, above as well as below, and none when
\* it is equal; exactly one image-count issue when total_images is below
\* its baseline, and none at or above it.
C23_IssueOnMismatchOrShortfall ==
    pc = "validated" =>
        /\ IssueCount("question_count")
             = IF total_questions # ExpectedQuestions THEN 1 ELSE 0
        /\ IssueCount("image_count")
             = IF total_images < ExpectedImages THEN 1 ELSE 0

\* C23 witness: more questions than expected are reported, more images than
\* the baseline are not.
C23_Witness ==
    /\ pc = "validated"
    /\ total_questions > ExpectedQuestions
    /\ total_images > ExpectedImages
    /\ IssueCount("question_count") = 1
    /\ IssueCount("image_count") = 0

\* the sum of the count values of the sections summary
SummaryCount ==
    LET keys == SortedSet(DOMAIN result.sections)
    IN  SumSeq([k \in 1..Len(keys) |-> result.sections[keys[k]].count])

\* C27: a successful result's sections summary has one entry per Section
\* found, so its count values add up to total_questions, which is the
\* length of the questions list (stated as the claim states it; the summary
\* is keyed by the first two characters of the heading).
C27_SummaryHasEverySection ==
    Succeeded =>
        /\ Cardinality(DOMAIN result.sections) = Len(sections)
        /\ SummaryCount = result.total_questions
        /\ result.total_questions = Len(result.questions)

\* the paragraph indices that lie in some question's range
UnionOfRanges == UNION {RangeSet(FlatQ[j].q) : j \in 1..Len(FlatQ)}

\* the counted images of the paragraphs with an index in S
ImagesOver(S) ==
    LET idx == SortedSet({i \in S : i < Len(doc)})
    IN  SumSeq([k \in 1..Len(idx) |-> CountedImages(doc[idx[k] + 1])])

\* C28: total_images of the result counts every paragraph at most once: it
\* is the sum of the questions' own-range image counts, without the merged
\* prefaces, and the image count over the union of the question ranges.
C28_TotalImagesOncePerParagraph ==
    Succeeded =>
        /\ result.total_images
             = SumSeq([j \in 1..Len(FlatQ) |->
                          OwnImages(FlatQ[j].q.start, FlatQ[j].q.end)])
        /\ result.total_images = ImagesOver(UnionOfRanges)

\* C28 witness: a preface with images is merged into a later question of its
\* group, so the contents' image counts add up to more than total_images.
C28_Witness ==
    /\ Succeeded
    /\ result.total_images > 0
    /\ SumSeq([j \in 1..Len(result.questions) |->
                  result.questions[j].content.total_images])
         > result.total_images

\* the first question of q's group in the list qs
FirstOfGroup(qs, q) ==
    CHOOSE f \in {qs[m] : m \in 1..Len(qs)} :
        f.group_id = q.group_id /\ f.number_index = FirstNumberIndex(qs, q)

\* q gets the preface of its group merged into its content
Merged(qs, q) ==
    /\ q.number_index # FirstNumberIndex(qs, q)
    /\ FirstOfGroup(qs, q).start < FirstOfGroup(qs, q).number_index

\* C29: every Question's range lies inside its Section's range, and the
\* preface merged into a question holds paragraphs of the question's own
\* Section and group only.
C29_QuestionInsideSection ==
    /\ \A k \in 1..Len(sections) : \A m \in 1..Len(sections[k].questions) :
          LET q == sections[k].questions[m]
          IN  /\ sections[k].start_para <= q.start
              /\ q.end <= sections[k].end_para
    /\ Succeeded =>
          \A j \in 1..Len(FlatQ) :
            LET q   == FlatQ[j].q
                sec == sections[FlatQ[j].sec]
                c   == result.questions[j].content
            IN  \A n \in 1..Len(c.paragraphs) :
                  LET i == c.paragraphs[n].paragraph_index
                  IN  /\ sec.start_para <= i /\ i < sec.end_para
                      /\ i \in RangeSet(q)
                           \/ (q.group_start <= i
                                 /\ i < FirstNumberIndex(sec.questions, q)
                                 /\ HeadingsIn(q.group_start + 1, i + 1) = {})

\* C29 witness: in the second Section of a document a group's preface is
\* merged into a later question of the group.
C29_Witness ==
    /\ Succeeded
    /\ \E j \in 1..Len(FlatQ) :
          /\ FlatQ[j].sec >= 2
          /\ FlatQ[j].q.group_id >= 1
          /\ Merged(sections[FlatQ[j].sec].questions, FlatQ[j].q)

\* C30: in every QuestionContent of the result the records are in strictly
\* increasing paragraph_index order, paragraph_count is the number of
\* records, and total_text_length is the merged preface's text length plus
\* the own range's.
C30_ContentOrdered ==
    Succeeded =>
        \A j \in 1..Len(FlatQ) :
            LET q  == FlatQ[j].q
                qs == sections[FlatQ[j].sec].questions
                c  == result.questions[j].content
                f  == FirstOfGroup(qs, q)
            IN  /\ \A n \in 1..(Len(c.paragraphs) - 1) :
                      c.paragraphs[n].paragraph_index
                        < c.paragraphs[n + 1].paragraph_index
                /\ c.paragraph_count = Len(c.paragraphs)
                /\ c.total_text_length
                     = (IF Merged(qs, q) THEN OwnTextLength(f.start, f.number_index)
                        ELSE 0)
                       + OwnTextLength(q.start, q.end)

\* C30 witness: a content of a preface of two or more records merged in
\* front of two or more records of the question's own range.
C30_Witness ==
    /\ Succeeded
    /\ \E j \in 1..Len(FlatQ) :
          LET q  == FlatQ[j].q
              qs == sections[FlatQ[j].sec].questions
              c  == result.questions[j].content
          IN  /\ Merged(qs, q)
              /\ Cardinality({n \in 1..Len(c.paragraphs) :
                     c.paragraphs[n].paragraph_index < q.start}) >= 2
              /\ Cardinality({n \in 1..Len(c.paragraphs) :
                     c.paragraphs[n].paragraph_index >= q.start}) >= 2

====
